---- MODULE Spec2Model ----
(***************************************************************************)
(* Session and credential lifecycle of the desktop app's main process:     *)
(* electron/AuthManager.ts (the session state and the credential file),    *)
(* the start of electron/main.ts (single-instance lock, initializeApp),    *)
(* its AppState auth methods and the AuthHandler of                        *)
(* electron/authHandler.ts (both kept in                                   *)
(* frontend/src/app/popup/page.tsx), and the auth IPC handlers of          *)
(* electron/ipcHandlers.ts.                                                *)
(*                                                                         *)
(* Four specifications.  Spec is the session machine: process start, auth  *)
(* initialization, callback URLs delivered by the operating system, and    *)
(* logout and refresh requests, in any interleaving.                       *)
(* RouteSpec is AuthHandler.handleProtocolUrl on its own: one URL, given   *)
(* by its scheme, path and raw query parameters, is turned into the        *)
(* callback made for it.  In Spec a delivered URL is given by what the     *)
(* router extracts from it (token, user, error message).                   *)
(* ServiceSpec is the services of AuthManager called one at a time:        *)
(* saveAuthState and loadStoredAuth on a credential file whose bytes are   *)
(* ciphertext or plain text, and validateTokenWithBackend on one backend   *)
(* outcome.  In Spec a load is given by whether the bytes read back.       *)
(* AppSpec is Spec with the two followers of the session at work: the      *)
(* window's App, whose view is set by the answer of get-auth-state and by  *)
(* the auth messages sent to it, and the processing helper, which copies   *)
(* the session token to LLMHelper before a backend request.                *)
(*                                                                         *)
(* Granularity.  Node runs one macrotask at a time and drains the          *)
(* microtask queue after it, and every file operation used here is         *)
(* synchronous, so an async method runs atomically from one network        *)
(* `await axios...` to the next.  Each action below is one such segment:   *)
(* the start of an operation up to its first network call, or the arrival  *)
(* of a network outcome up to the next network call or the end of the      *)
(* operation.  Operations waiting for the network are the elements of      *)
(* `inflight`; they interleave freely.                                     *)
(*                                                                         *)
(* Environment.  The backend, the clock, the OS secret store and the       *)
(* content of the credential file at process start are inputs; whether     *)
(* the bytes of the file read back as the text that was saved (decryption  *)
(* succeeding, or the plaintext fallback applying) is an input of a load.  *)
(* process.platform is fixed when the process starts.  A process without   *)
(* the single-instance lock is followed only through the load of main.ts:  *)
(* what Electron still runs between app.quit() and the exit is not in      *)
(* the source.                                                             *)
(* fs.unlinkSync on the existing credential file is taken to succeed (the  *)
(* catch of clearStoredAuth only logs); saveAuthState may throw            *)
(* (encryptString / writeFileSync raising), which it re-throws to its      *)
(* caller, and then nothing has been written.                              *)
(***************************************************************************)
EXTENDS Naturals, Sequences, FiniteSets, Bags, TLC

\* ------------------------------------------------------------------ bounds
\* Operations that may wait for the network at the same time.
MaxInFlight == 2
\* Calls of AppState.initializeAuth (one per createWindow timer).
MaxInits == 2
\* Characters of the user value a callback URL carries.
MaxUserLen == 2

\* ------------------------------------------------------------------ values
\* JavaScript null / undefined.
NULL == "null"
\* The empty string.
EMPTY == ""
\* Bearer tokens the login site, the backend or the file can hold.
Tokens == {"tA", "tB"}
\* User profiles (opaque JSON objects).
Users == {"uA", "uB"}
\* The inputs are drawn so that values of different origin differ: the
\* token and the user in a credential file found at start, the token of a
\* callback URL (its user is CallbackUsers below), and the profile the
\* backend returns.
StoredTokens == {"tA"}
StoredUsers == {"uB"}
CallbackTokens == {"tB"}
BackendProfiles == {"uA"}
\* JavaScript truthiness of a string-or-null value: `!!v`.
Truthy(v) == v /= NULL /\ v /= EMPTY

VARIABLES
  authState,      \* AuthManager.authState
  authFile,       \* the credential file <userData>/auth.dat
  inflight,       \* bag of operations awaiting a network outcome
  authCallbacks,  \* AppState.authHandler is set and has its callbacks
  inits,          \* number of initializeAuth calls so far
  last,           \* the segment that ran last, and what it was given
  main,           \* what loading electron/main.ts has done in this process
  platform,       \* process.platform
  handlers,       \* AuthHandler objects whose app listeners are registered
  url,            \* the callback URL handed to AuthHandler.handleProtocolUrl
  authEvent,      \* the callback AuthHandler.handleProtocolUrl made for it
  disk,           \* the credential file with the form of its bytes
  call,           \* the last call of a service, its inputs and its result
  saved,          \* what the last saveAuthState that wrote was given
  renderer,       \* the auth view of App in the window, when it is followed
  llm             \* LLMHelper.authToken and the bearer of its last request

\* The state of the session machine, the state of the URL router, the
\* state of the services taken on their own, and the state of the parts of
\* the app that follow the session (the renderer, the LLM helper).
sessionVars ==
  <<authState, authFile, inflight, authCallbacks, inits, last, main, platform, handlers>>
routerVars == <<url, authEvent>>
serviceVars == <<disk, call, saved>>
appVars == <<renderer, llm>>

vars ==
  <<authState, authFile, inflight, authCallbacks, inits, last, main, platform, handlers,
    url, authEvent, disk, call, saved, renderer, llm>>

\* ------------------------------------------------------- AuthManager state
\* AuthManager.authState as constructed, and as clearAuthState resets it.
Unauthenticated == [isAuthenticated |-> FALSE, user |-> NULL, token |-> NULL]

\* AuthManager.isAuthenticated().
isAuthenticated(s) == s.isAuthenticated /\ Truthy(s.token)

\* The "get-auth-state" IPC handler: what getState() answers.
GetAuthState == [isAuthenticated |-> isAuthenticated(authState),
                 user |-> authState.user]

\* ------------------------------------------------------- credential file
\* No file at the credential path.
NoFile == [exists |-> FALSE, json |-> FALSE,
           token |-> NULL, user |-> NULL, old |-> FALSE]

\* A file written by saveAuthState: JSON {token, user, timestamp: now}.
SavedFile(token, user) ==
  [exists |-> TRUE, json |-> TRUE,
   token |-> token, user |-> user, old |-> FALSE]

\* saveAuthState storing the user it is given, present or not.
StoredUser_AsGiven(user, memUser) == user

\* `user: authData.user || this.authState.user` of saveAuthState.
StoredUser(user, memUser) == IF Truthy(user) THEN user ELSE memUser

\* Files a previous run of the program (or damage to its file) can leave:
\* nothing, a record of a stored token and user younger or older than
\* 30 days, or bytes that are no JSON.
StartFiles ==
  {NoFile}
  \cup { [exists |-> TRUE, json |-> TRUE, token |-> t, user |-> u, old |-> o] :
           t \in StoredTokens, u \in StoredUsers, o \in BOOLEAN }
  \cup { [exists |-> TRUE, json |-> FALSE,
          token |-> NULL, user |-> NULL, old |-> FALSE] }

\* clearStoredAuth that leaves the file in place.
clearStoredAuth_Noop(f) == f

\* AuthManager.clearStoredAuth: unlink the file if it exists.
clearStoredAuth(f) == NoFile

\* loadStoredAuth without the check of the timestamp.
loadStoredAuth_KeepsOld(f, readOk) ==
  IF ~f.exists
    THEN [present |-> FALSE, token |-> NULL, user |-> NULL, file |-> f]
  ELSE IF ~(readOk /\ f.json)
    THEN [present |-> FALSE, token |-> NULL, user |-> NULL, file |-> NoFile]
  ELSE [present |-> TRUE, token |-> f.token, user |-> f.user, file |-> f]

\* AuthManager.loadStoredAuth: the AuthData returned (present = not null)
\* and the file it leaves.  JSON.parse throwing (bytes that do not read
\* back, or no JSON) and a timestamp older than 30 days both clear the file.
loadStoredAuth(f, readOk) ==
  IF ~f.exists
    THEN [present |-> FALSE, token |-> NULL, user |-> NULL, file |-> f]
  ELSE IF ~(readOk /\ f.json)
    THEN [present |-> FALSE, token |-> NULL, user |-> NULL,
          file |-> clearStoredAuth(f)]
  ELSE IF f.old
    THEN [present |-> FALSE, token |-> NULL, user |-> NULL,
          file |-> clearStoredAuth(f)]
  ELSE [present |-> TRUE, token |-> f.token, user |-> f.user, file |-> f]

\* ------------------------------------------------- the bytes of the file
\* The credential file with the form of its bytes: "cipher" as
\* safeStorage.encryptString produced them, "plain" as the UTF-8 text
\* itself, "none" without a file.
Disk(file, form) == [file |-> file, form |-> form]

NoDisk == Disk(NoFile, "none")

\* Files a previous run can leave, in either form; bytes that are no JSON
\* are no ciphertext either.
StartDisks ==
  { Disk(f, form) : f \in {g \in StartFiles : g.exists /\ g.json},
                    form \in {"cipher", "plain"} }
  \cup { Disk(f, "plain") : f \in {g \in StartFiles : g.exists /\ ~g.json} }
  \cup {NoDisk}

\* `safeStorage.isEncryptionAvailable() ? encryptString(json) :
\* Buffer.from(json, 'utf8')` of saveAuthState.
WrittenForm(encryptionAvailable) ==
  IF encryptionAvailable THEN "cipher" ELSE "plain"

\* loadStoredAuth's decryptString call throws: it is made only when
\* encryption is available, and fails on bytes that are no ciphertext and
\* on ciphertext the OS key no longer opens (decryptOk false).
DecryptFails(form, encryptionAvailable, decryptOk) ==
  encryptionAvailable /\ (form /= "cipher" \/ ~decryptOk)

\* A load that takes whatever bytes it finds for the text that was saved.
ReadsBack_AnyBytes(form, encryptionAvailable, decryptOk) == TRUE

\* Whether jsonString of loadStoredAuth is the text that was written:
\* decryptString succeeding on ciphertext, or `toString('utf8')` (taken
\* without encryption, and as the fallback when decryptString throws)
\* applied to plain bytes.  Ciphertext read as UTF-8 is not that text.
ReadsBack(form, encryptionAvailable, decryptOk) ==
  IF form = "cipher" THEN encryptionAvailable /\ decryptOk ELSE TRUE

\* What the caller of `saveAuthState(...): Promise<void>` gets when it
\* does not throw: undefined, whether or not the bytes were encrypted (the
\* plain write is reported by console.warn only).
SaveReturns(encryptionAvailable) == "undefined"

\* No service call yet, and no save yet.
NoCall == [op |-> "none"]
NoSave == [written |-> FALSE, token |-> NULL, user |-> NULL, memUser |-> NULL]

\* The credentials handed to saveAuthState: a token with or without a
\* user (handleAuthSuccess passes the callback's AuthData, whose user is
\* optional).
Credentials ==
  { [token |-> t, user |-> u] :
      t \in StoredTokens \cup CallbackTokens, u \in StoredUsers \cup {NULL} }

\* ------------------------------------------------------- backend outcomes
\* What one axios call can end in: an HTTP response (status, body.success),
\* a transport error, or the 10 s timeout.  body.success is "true", "false"
\* or "missing".
HttpOutcomes ==
  { [kind |-> "response", status |-> 200, success |-> su] :
      su \in {"true", "false", "missing"} }
  \cup { [kind |-> "response", status |-> 401, success |-> "true"] }
  \cup { [kind |-> k, status |-> 0, success |-> "missing"] :
      k \in {"neterr", "timeout"} }

\* A check of body.success alone, whatever the status.
Http200Success_AnyStatus(r) == r.kind = "response" /\ r.success = "true"

\* `response.status === 200 && response.data?.success === true`; a thrown
\* axios error (transport error, timeout, status outside 2xx) never is.
Http200Success(r) ==
  r.kind = "response" /\ r.status = 200 /\ r.success = "true"

\* How the model names an outcome in `last`.
NetName(r) ==
  IF Http200Success(r) THEN "ok"
  ELSE IF r.kind = "response" THEN "rejected" ELSE r.kind

\* validateTokenWithBackend that trusts the token when the backend cannot
\* be reached (its catch returning true).
validateTokenWithBackend_FailOpen(r) == Http200Success(r) \/ r.kind /= "response"

\* AuthManager.validateTokenWithBackend on outcome r.
validateTokenWithBackend(r) == Http200Success(r)

\* Outcomes of GET /api/auth/profile: body.data is a profile or missing.
ProfileOutcomes ==
  { [http |-> h, data |-> d] : h \in HttpOutcomes, d \in BackendProfiles }
  \cup { [http |-> h, data |-> NULL] : h \in {o \in HttpOutcomes : Http200Success(o)} }

\* AuthManager.getUserDataFromBackend on outcome r.
getUserDataFromBackend(r) ==
  IF Http200Success(r.http) THEN r.data ELSE NULL

\* Outcomes of POST /api/auth/refresh-token: body.data holds the new token
\* under some field name, or holds none.
RefreshOutcomes ==
  { [http |-> h, field |-> f, value |-> v] :
      h \in {o \in HttpOutcomes : Http200Success(o)},
      f \in {"customToken", "newToken"}, v \in Tokens \cup {EMPTY} }
  \cup { [http |-> h, field |-> "customToken", value |-> v] :
      h \in HttpOutcomes, v \in Tokens }
  \cup { [http |-> h, field |-> "none", value |-> NULL] : h \in HttpOutcomes }

\* refreshToken reading the new token from `data.newToken`.
ResponseNewToken_NewTokenField(r) == IF r.field = "newToken" THEN r.value ELSE NULL

\* `response.data.data?.customToken` of refreshToken.
ResponseNewToken(r) == IF r.field = "customToken" THEN r.value ELSE NULL

\* --------------------------------------------------------------- history
\* The record kept in `last`: the segment that ran (ev), how it ended
\* (why), and the data it was given: the token (stored, from the callback,
\* or from the refresh response), the wire field of a refresh response,
\* the callback's user, the profile the backend returned, and the error
\* message sent to the renderer.  For a callback URL the operating system
\* delivered, also the app event that carried it (path) and the number of
\* handleProtocolUrl calls the delivery caused (runs).
Ev(ev, why, field, token, user, profile, error) ==
  [ev |-> ev, why |-> why, field |-> field, token |-> token,
   user |-> user, profile |-> profile, error |-> error,
   path |-> "none", runs |-> 0]

\* The record of a segment that a delivery through `path` started with
\* `runs` calls of handleProtocolUrl.
Delivery(e, path, runs) == [e EXCEPT !.path = path, !.runs = runs]

\* A segment that ends in a network call: nothing to report yet.
Step(ev) == Ev(ev, "none", "none", NULL, NULL, NULL, NULL)

NoEv == Step("none")

\* An operation waiting for the network: which call it awaits and its
\* local variables (the token it carries, the callback's user).
Op(kind, pc, token, user) ==
  [kind |-> kind, pc |-> pc, token |-> token, user |-> user]

Add(bag, op) == bag (+) SetToBag({op})
Remove(bag, op) == bag (-) SetToBag({op})
Waiting == BagToSet(inflight)
CanStart == BagCardinality(inflight) < MaxInFlight

\* ------------------------------------------------------ electron/main.ts
\* Platforms the code tells apart: `process.platform === 'darwin'`,
\* `=== 'win32'`, and any other.
Platforms == {"darwin", "win32", "linux"}

\* Nothing of main.ts has run yet.
NotLoaded ==
  [loaded |-> FALSE, gotTheLock |-> FALSE, quit |-> FALSE,
   appState |-> FALSE, ipcHandlers |-> FALSE]

\* Loading main.ts, one synchronous run of the script: the lock is
\* requested, without it app.quit() is called (which returns), and then
\* `initializeApp()` at the end of the script runs in either case:
\* AppState.getInstance() constructs the AppState and
\* initializeIpcHandlers registers the IPC handlers.
LoadedMain(lock) ==
  [loaded |-> TRUE, gotTheLock |-> lock, quit |-> ~lock,
   appState |-> TRUE, ipcHandlers |-> TRUE]

\* The primary instance is up: it holds the lock and was not told to quit.
Running == main.loaded /\ main.gotTheLock /\ ~main.quit

\* --------------------------------------------- AuthHandler: URL, callback
\* A query parameter as it stands in the URL: absent, or its raw text.
NoParam == [present |-> FALSE, text |-> <<>>]
Param(text) == [present |-> TRUE, text |-> text]

\* A callback URL `<scheme>://<path>?token=..&user=..&expires=..` or
\* `..?error=..&error_description=..`.  token, error and description are
\* what URLSearchParams.get returns for them (NULL when absent).
Url(scheme, path, token, user, expires, error, description) ==
  [scheme |-> scheme, path |-> path, token |-> token, user |-> user,
   expires |-> expires, error |-> error, description |-> description]

\* No URL: the router is idle in the runs of the session machine.
NoUrl == Url("none", "none", NULL, NoParam, NoParam, NULL, NULL)

\* A field of AuthData that is undefined.
Undefined == [kind |-> "undefined", value |-> <<>>]
UndefinedNumber == [kind |-> "undefined", n |-> 0]

\* What handleProtocolUrl did with a URL: onSuccess(authData),
\* onError(error), or return without a callback ("ignored"); "pending"
\* before it ran.
AuthEvent(type, token, user, expiresAt, error) ==
  [type |-> type, token |-> token, user |-> user, expiresAt |-> expiresAt,
   error |-> error]
Pending == AuthEvent("pending", NULL, Undefined, UndefinedNumber, NULL)
Ignored == AuthEvent("ignored", NULL, Undefined, UndefinedNumber, NULL)
OnError(error) == AuthEvent("Error", NULL, Undefined, UndefinedNumber, error)
OnSuccess(token, user, expiresAt) == AuthEvent("Success", token, user, expiresAt, NULL)

\* ------------------------------------------- messages to the renderer
\* A message of webContents.send: its channel and its payload fields
\* (null where the payload has no such field).
Message(channel, flag, user, token, error) ==
  [channel |-> channel, isAuthenticated |-> flag, user |-> user,
   token |-> token, error |-> error]

\* A boolean of a payload, as its JSON text.
JSONBool(b) == IF b THEN "true" ELSE "false"

\* notifyAuthStateChanged for session s.
AuthStateChangedMessage(s) ==
  Message("auth-state-changed", JSONBool(s.isAuthenticated), NULL, NULL, NULL)

\* An auth-success message that carries the session's token.
AuthSuccessMessage_RealToken(s) ==
  Message("auth-success", NULL, s.user, s.token, NULL)

\* The auth-success message of AppState.handleAuthSuccess:
\* `{ user: this.authManager.getUserData(), token: '***' }`.
AuthSuccessMessage(s) == Message("auth-success", NULL, s.user, "***", NULL)

\* The auth-error message of AppState.handleAuthError.
AuthErrorMessage(error) == Message("auth-error", NULL, NULL, NULL, error)

\* The auth-logout message of AppState.logout (no payload).
AuthLogoutMessage == Message("auth-logout", NULL, NULL, NULL, NULL)

\* The messages the segment recorded in l sent to the window, in order,
\* s being the session at its end: the end of initializeAuth notifies; a
\* login that succeeded notifies and sends auth-success; a failed login
\* and every handled error URL send auth-error (once per listener run);
\* logout notifies and sends auth-logout; a refresh that returned true
\* notifies.
SentBy(l, s) ==
  IF l.ev = "init:done" /\ l.why /= "nowindow" THEN <<AuthStateChangedMessage(s)>>
  ELSE IF l.ev = "login:success"
    THEN <<AuthStateChangedMessage(s), AuthSuccessMessage(s)>>
  ELSE IF l.ev = "login:failed" THEN <<AuthErrorMessage(l.error)>>
  ELSE IF l.ev = "authError" THEN [i \in 1..l.runs |-> AuthErrorMessage(l.error)]
  ELSE IF l.ev = "logout" THEN <<AuthStateChangedMessage(s), AuthLogoutMessage>>
  ELSE IF l.ev = "refresh:true" THEN <<AuthStateChangedMessage(s)>>
  ELSE <<>>

\* The answers of the auth IPC handlers in the current state:
\* get-auth-state, is-authenticated, logout, and refresh-auth-token for
\* either result.
IpcResponses ==
  { [channel |-> "get-auth-state",
     isAuthenticated |-> JSONBool(GetAuthState.isAuthenticated),
     user |-> GetAuthState.user,
     success |-> NULL, message |-> NULL],
    [channel |-> "is-authenticated",
     isAuthenticated |-> JSONBool(isAuthenticated(authState)), user |-> NULL,
     success |-> "true", message |-> NULL],
    [channel |-> "logout", isAuthenticated |-> NULL, user |-> NULL,
     success |-> "true", message |-> NULL],
    [channel |-> "refresh-auth-token", isAuthenticated |-> NULL, user |-> NULL,
     success |-> "true", message |-> "Token refreshed successfully"],
    [channel |-> "refresh-auth-token", isAuthenticated |-> NULL, user |-> NULL,
     success |-> "false", message |-> "Token refresh failed"] }

\* ------------------------------------------------ the renderer's view
\* The auth view of App (src/App.tsx): its authState ("loading" when
\* mounted) and whether checkAuthState has had its answer.  "none": the
\* renderer is not followed.
NoRenderer == [view |-> "none", checked |-> FALSE]
Mounted == [view |-> "loading", checked |-> FALSE]

\* The view App's listener sets for message m: onAuthSuccess and
\* onAuthError set it whatever the session is, onAuthStateChanged follows
\* the flag, onAuthLogout sets "unauthenticated".
ViewFor(m) ==
  IF m.channel = "auth-success" THEN "authenticated"
  ELSE IF m.channel = "auth-state-changed"
    THEN (IF m.isAuthenticated = "true" THEN "authenticated" ELSE "unauthenticated")
  ELSE "unauthenticated"

\* The renderer after it has processed msgs in order: every listener
\* sets the view outright, so the last message decides.
Hears(r, msgs) ==
  IF r.view = "none" \/ msgs = <<>> THEN r
  ELSE [r EXCEPT !.view = ViewFor(msgs[Len(msgs)])]

\* The window processes what the segment that just ran sent to it.
RendererHears == renderer' = Hears(renderer, SentBy(last', authState'))

\* LLMHelper as constructed: authToken null, no request made.
NoLlm == [authToken |-> NULL, bearer |-> NULL]

\* ------------------------------------------------------------------ Init
Init ==
  /\ authState = Unauthenticated
  /\ authFile \in StartFiles
  /\ inflight = EmptyBag
  /\ authCallbacks = FALSE
  /\ inits = 0
  /\ last = NoEv
  /\ main = NotLoaded
  /\ platform \in Platforms
  /\ handlers = 0
  /\ url = NoUrl
  /\ authEvent = Pending
  /\ disk = NoDisk
  /\ call = NoCall
  /\ saved = NoSave
  /\ renderer = NoRenderer
  /\ llm = NoLlm

\* The process starts: main.ts is loaded, with or without the
\* single-instance lock.
LoadMain ==
  /\ ~main.loaded
  /\ \E lock \in BOOLEAN : main' = LoadedMain(lock)
  /\ last' = Step("main:loaded")
  /\ UNCHANGED <<authState, authFile, inflight, authCallbacks, inits, platform, handlers>>
  /\ UNCHANGED <<routerVars, serviceVars, llm>> /\ RendererHears

\* AuthManager.clearAuthState: reset the session and unlink the file.
clearAuthState ==
  /\ authState' = Unauthenticated
  /\ authFile' = clearStoredAuth(authFile)

\* AuthManager.saveAuthState(authData) when nothing throws: the record
\* written, with `user: authData.user || this.authState.user`.
saveAuthState(token, user, memUser) ==
  authFile' = SavedFile(token, StoredUser(user, memUser))

\* A verify-token call without a timeout against a backend that never
\* answers: it has no outcome.
ValidateResults_NeverSettles == {}

\* The results validateTokenWithBackend can return, each with the kind of
\* outcome that produced it.
ValidateResults ==
  { [valid |-> validateTokenWithBackend(r), net |-> NetName(r)] : r \in HttpOutcomes }

\* The results getUserDataFromBackend can return.
ProfileResults == { getUserDataFromBackend(r) : r \in ProfileOutcomes }

\* ------------------------------------------- AppState.initializeAuth / Init
\* `storedAuth && storedAuth.token` of AuthManager.initialize.
HasStoredToken(stored) == stored.present /\ Truthy(stored.token)

\* initialize restoring the session without the stored token.
RestoredSession_NoToken(token, userData) ==
  [isAuthenticated |-> TRUE, user |-> userData, token |-> NULL]

\* The session AuthManager.initialize restores for a stored token that the
\* backend validated and whose profile userData it returned.
RestoredSession(token, userData) ==
  [isAuthenticated |-> TRUE, user |-> userData, token |-> token]

\* initializeAuth after `await this.authManager.initialize()`: a new
\* AuthHandler replaces AppState.authHandler, its registerProtocol adds an
\* 'open-url' and a 'second-instance' listener to the app, and it gets the
\* AppState callbacks.  Nothing removes the listeners of earlier handlers.
installAuthHandler ==
  /\ authCallbacks' = TRUE
  /\ handlers' = handlers + 1

\* The createWindow timer fires: initializeAuth runs, and with it
\* AuthManager.initialize up to the verify-token call.  Without a main
\* window it returns at once.  With nothing stored initialize returns and
\* initializeAuth installs the AuthHandler callbacks.
InitializeAuth ==
  /\ Running
  /\ inits < MaxInits
  /\ inits' = inits + 1
  /\ \E hasWindow \in BOOLEAN, readOk \in BOOLEAN :
       IF ~hasWindow
         THEN /\ last' = Ev("init:done", "nowindow", "none", NULL, NULL, NULL, NULL)
              /\ UNCHANGED <<authState, authFile, inflight, authCallbacks, handlers>>
         ELSE LET stored == loadStoredAuth(authFile, readOk) IN
              /\ authFile' = stored.file
              /\ IF HasStoredToken(stored)
                   THEN /\ CanStart
                        /\ inflight' = Add(inflight, Op("init", "validate", stored.token, NULL))
                        /\ last' = Step("init:validate")
                        /\ UNCHANGED <<authCallbacks, handlers>>
                   ELSE /\ installAuthHandler
                        /\ last' = Ev("init:done", "nostored", "none", NULL, NULL, NULL, NULL)
                        /\ UNCHANGED inflight
              /\ UNCHANGED authState
  /\ UNCHANGED <<main, platform>>
  /\ UNCHANGED <<routerVars, serviceVars, llm>> /\ RendererHears

\* The verify-token call of initialize ends: a valid token goes on to the
\* profile call, an invalid one clears the session and the file, and
\* initializeAuth installs the AuthHandler callbacks.
InitValidateOutcome ==
  \E op \in Waiting, v \in ValidateResults :
    /\ op.kind = "init" /\ op.pc = "validate"
    /\ IF v.valid
         THEN /\ inflight' = Add(Remove(inflight, op), Op("init", "profile", op.token, NULL))
              /\ last' = Ev("init:profile", v.net, "none", NULL, NULL, NULL, NULL)
              /\ UNCHANGED <<authState, authFile, authCallbacks, handlers>>
         ELSE /\ clearAuthState
              /\ inflight' = Remove(inflight, op)
              /\ installAuthHandler
              /\ last' = Ev("init:done", v.net, "none", op.token, NULL, NULL, NULL)
    /\ UNCHANGED <<inits, main, platform>>
    /\ UNCHANGED <<routerVars, serviceVars, llm>> /\ RendererHears

\* The profile call of initialize ends.
InitProfileOutcome ==
  \E op \in Waiting, userData \in ProfileResults :
    /\ op.kind = "init" /\ op.pc = "profile"
    /\ IF Truthy(userData)
         THEN /\ authState' = RestoredSession(op.token, userData)
              /\ last' = Ev("init:done", "restored", "none", op.token, NULL, userData, NULL)
              /\ UNCHANGED authFile
         ELSE /\ clearAuthState
              /\ last' = Ev("init:done", "noprofile", "none", op.token, NULL, NULL, NULL)
    /\ inflight' = Remove(inflight, op)
    /\ installAuthHandler
    /\ UNCHANGED <<inits, main, platform>>
    /\ UNCHANGED <<routerVars, serviceVars, llm>> /\ RendererHears

\* --------------------------------------------------- protocol callbacks
\* Query parameters of a callback URL as URLSearchParams.get returns them:
\* null when absent.  A `user` parameter is the JSON of a profile or text
\* that JSON.parse rejects.
TokenParams == CallbackTokens \cup {EMPTY, NULL}
BADJSON == "not json"
CallbackUsers == {"uB"}
UserParams == CallbackUsers \cup {NULL, BADJSON}
ErrorParams == {"access_denied", EMPTY, NULL}
DescriptionParams == {"User cancelled", EMPTY, NULL}

\* `userParam ? JSON.parse(decodeURIComponent(userParam)) : undefined`.
ParsedUser(userParam) == IF Truthy(userParam) THEN userParam ELSE NULL

\* AppState.handleAuthError ending the session like a logout.
handleAuthError_ClearsSession(ev, why, error) ==
  /\ last' = Ev(ev, why, "none", NULL, NULL, NULL, error)
  /\ clearAuthState

\* AppState.handleAuthError(error): the error goes to the renderer as an
\* "auth-error" message; the session and the file are not touched.
handleAuthError(ev, why, error) ==
  /\ last' = Ev(ev, why, "none", NULL, NULL, NULL, error)
  /\ UNCHANGED <<authState, authFile>>

\* The app events that carry a callback URL to the running instance:
\* 'open-url' (emitted on macOS only) and 'second-instance', whose
\* commandLine holds the URL.
DeliveryPaths(plat) ==
  IF plat = "darwin" THEN {"open-url", "second-instance"} ELSE {"second-instance"}

\* An app on which registerProtocol has added no listener.
ListenerRuns_None(path, plat, n, hasHandler) == 0

\* handleProtocolUrl calls that one delivery causes: every AuthHandler
\* that ran registerProtocol has a listener on both events, and on win32
\* the 'second-instance' handler of main.ts calls handleProtocolUrl of the
\* current AuthHandler as well, when there is one.  (The 'open-url'
\* listener of main.ts only focuses the window.)
ListenerRuns(path, plat, n, hasHandler) ==
  IF path = "second-instance" /\ plat = "win32" /\ hasHandler THEN n + 1 ELSE n

\* The listeners of one delivery each ending in
\* AppState.handleAuthError(error).
deliverAuthError(why, error, path, runs) ==
  /\ last' = Delivery(Ev("authError", why, "none", NULL, NULL, NULL, error), path, runs)
  /\ UNCHANGED <<authState, authFile>>

\* handleAuthSuccess testing `token === null`: an empty token passes.
TokenMissing_NullOnly(token) == token = NULL

\* `if (!token)` of AuthHandler.handleAuthSuccess.
TokenMissing(token) == ~Truthy(token)

\* The operating system delivers an auth-success URL.  Every listener
\* there is runs AuthHandler.handleProtocolUrl on it, through
\* AuthHandler.handleAuthSuccess and the onSuccess callback into
\* AppState.handleAuthSuccess and AuthManager.handleAuthSuccess up to the
\* verify-token call; with no listener yet the URL is discarded.
AuthSuccessCallback ==
  /\ Running
  /\ \E path \in DeliveryPaths(platform) :
       LET runs == ListenerRuns(path, platform, handlers, authCallbacks) IN
       IF runs = 0
         THEN /\ last' = Delivery(Step("url:dropped"), path, runs)
              /\ UNCHANGED <<authState, authFile, inflight>>
         ELSE \E token \in TokenParams :
           IF TokenMissing(token)
             THEN /\ deliverAuthError("notoken", "No authentication token received", path, runs)
                  /\ UNCHANGED inflight
             ELSE \E userParam \in UserParams :
               IF userParam = BADJSON
                 THEN /\ deliverAuthError("badurl", "Invalid callback URL format", path, runs)
                      /\ UNCHANGED inflight
                 ELSE /\ BagCardinality(inflight) + runs <= MaxInFlight
                      /\ inflight' = inflight (+)
                           (Op("login", "validate", token, ParsedUser(userParam)) :> runs)
                      /\ last' = Delivery(Step("login:validate"), path, runs)
                      /\ UNCHANGED <<authState, authFile>>
  /\ UNCHANGED <<authCallbacks, inits, main, platform, handlers>>
  /\ UNCHANGED <<routerVars, serviceVars, llm>> /\ RendererHears

\* The verify-token call of handleAuthSuccess ends.  An invalid token makes
\* AuthManager.handleAuthSuccess throw, which AppState.handleAuthSuccess
\* turns into handleAuthError('Authentication failed').
LoginValidateOutcome ==
  \E op \in Waiting, v \in ValidateResults :
    /\ op.kind = "login" /\ op.pc = "validate"
    /\ IF v.valid
         THEN /\ inflight' = Add(Remove(inflight, op), Op("login", "profile", op.token, op.user))
              /\ last' = Ev("login:profile", v.net, "none", NULL, NULL, NULL, NULL)
              /\ UNCHANGED <<authState, authFile>>
         ELSE /\ inflight' = Remove(inflight, op)
              /\ handleAuthError("login:failed", "invalid", "Authentication failed")
    /\ UNCHANGED <<authCallbacks, inits, main, platform, handlers>>
    /\ UNCHANGED <<routerVars, serviceVars, llm>> /\ RendererHears

\* handleAuthSuccess keeping the callback's user instead of the profile.
LoginSession_CallbackUser(token, cbUser, userData) ==
  [isAuthenticated |-> TRUE, user |-> cbUser, token |-> token]

\* The session AuthManager.handleAuthSuccess publishes for the callback's
\* token and user once the token is valid and the profile userData is there.
LoginSession(token, cbUser, userData) ==
  [isAuthenticated |-> TRUE, user |-> userData, token |-> token]

\* The profile call of handleAuthSuccess ends.  With a profile the session
\* is set and then saved; a save that throws is re-thrown and ends in
\* handleAuthError('Authentication failed') like the other failures.
LoginProfileOutcome ==
  \E op \in Waiting, userData \in ProfileResults :
    /\ op.kind = "login" /\ op.pc = "profile"
    /\ inflight' = Remove(inflight, op)
    /\ IF ~Truthy(userData)
         THEN handleAuthError("login:failed", "noprofile", "Authentication failed")
         ELSE /\ authState' = LoginSession(op.token, op.user, userData)
              /\ \E saveOk \in BOOLEAN :
                   IF saveOk
                     THEN /\ saveAuthState(op.token, op.user, userData)
                          /\ last' = Ev("login:success", "none", "none",
                                        op.token, op.user, userData, NULL)
                     ELSE /\ UNCHANGED authFile
                          /\ last' = Ev("login:failed", "savefailed", "none",
                                        NULL, NULL, NULL, "Authentication failed")
    /\ UNCHANGED <<authCallbacks, inits, main, platform, handlers>>
    /\ UNCHANGED <<routerVars, serviceVars, llm>> /\ RendererHears

\* handleAuthError passing the error on without its description.
FullError_ErrorOnly(error, description) ==
  IF Truthy(error) THEN error ELSE "Authentication failed"

\* AuthHandler.handleAuthError: the message built from the `error` and
\* `error_description` parameters.
FullError(error, description) ==
  LET e == IF Truthy(error) THEN error ELSE "Authentication failed" IN
  IF Truthy(description) THEN e \o ": " \o description ELSE e

\* The messages of the auth-error URLs delivered to the session machine:
\* one with both parameters, one with neither.
DeliveredErrors == {FullError("access_denied", "User cancelled"), FullError(NULL, NULL)}

\* The operating system delivers an auth-error URL.  Every listener
\* there is runs AuthHandler.handleProtocolUrl on it, through
\* AuthHandler.handleAuthError and the onError callback into
\* AppState.handleAuthError; with no listener yet the URL is discarded.
AuthErrorCallback ==
  /\ Running
  /\ \E path \in DeliveryPaths(platform) :
       LET runs == ListenerRuns(path, platform, handlers, authCallbacks) IN
       IF runs = 0
         THEN /\ last' = Delivery(Step("url:dropped"), path, runs)
              /\ UNCHANGED <<authState, authFile>>
         ELSE \E fullError \in DeliveredErrors :
                deliverAuthError("callback", fullError, path, runs)
  /\ UNCHANGED <<inflight, authCallbacks, inits, main, platform, handlers>>
  /\ UNCHANGED <<routerVars, serviceVars, llm>> /\ RendererHears

\* ------------------------------------------------------------ IPC: logout
\* The "logout" handler: AppState.logout, AuthManager.logout,
\* clearAuthState.
Logout ==
  /\ Running
  /\ clearAuthState
  /\ last' = Ev("logout",
                IF authState.isAuthenticated THEN "authenticated" ELSE "unauthenticated",
                IF authFile.exists THEN "file" ELSE "nofile", NULL, NULL, NULL, NULL)
  /\ UNCHANGED <<inflight, authCallbacks, inits, main, platform, handlers>>
  /\ UNCHANGED <<routerVars, serviceVars, llm>> /\ RendererHears

\* ----------------------------------------------------------- IPC: refresh
\* `if (!this.authState.token) return false` of refreshToken.
NoTokenHeld(s) == ~Truthy(s.token)

\* The "refresh-auth-token" handler up to the refresh-token call.
RefreshStart ==
  /\ Running
  /\ IF NoTokenHeld(authState)
       THEN /\ last' = Ev("refresh:false", "notoken", "none", NULL, NULL, NULL, NULL)
            /\ UNCHANGED inflight
       ELSE /\ CanStart
            /\ inflight' = Add(inflight, Op("refresh", "refresh", authState.token, NULL))
            /\ last' = Step("refresh:start")
  /\ UNCHANGED <<authState, authFile, authCallbacks, inits, main, platform, handlers>>
  /\ UNCHANGED <<routerVars, serviceVars, llm>> /\ RendererHears

\* refreshToken with `if (newToken !== undefined)`: an empty string passes.
AcceptsNewToken_EmptyAccepted(r) ==
  Http200Success(r.http) /\ ResponseNewToken(r) /= NULL

\* `response.status === 200 && response.data?.success === true` followed by
\* `if (newToken)` in refreshToken.
AcceptsNewToken(r) == Http200Success(r.http) /\ Truthy(ResponseNewToken(r))

\* What refreshToken makes of an outcome: whether it accepts a new token,
\* the token accepted, and for a 200/success response the wire field and
\* value it carried.
RefreshResults ==
  { [accepted |-> AcceptsNewToken(r),
     newToken |-> IF AcceptsNewToken(r) THEN ResponseNewToken(r) ELSE NULL,
     ok |-> Http200Success(r.http),
     field |-> IF Http200Success(r.http) THEN r.field ELSE "none",
     value |-> IF Http200Success(r.http) THEN r.value ELSE NULL] : r \in RefreshOutcomes }

\* refreshToken treating a failed refresh as the end of the session.
RefreshFailed_ClearsSession == clearAuthState

\* refreshToken returning false after the call: nothing is changed.
RefreshFailed ==
  UNCHANGED <<authState, authFile>>

\* The refresh-token call ends.  An accepted new token is saved and then
\* stored in the session; every other outcome, a throwing save included,
\* resolves false.
RefreshOutcome ==
  \E op \in Waiting, r \in RefreshResults :
    /\ op.kind = "refresh"
    /\ inflight' = Remove(inflight, op)
    /\ \E saveOk \in (IF r.accepted THEN BOOLEAN ELSE {TRUE}) :
         IF r.accepted /\ saveOk
           THEN /\ saveAuthState(r.newToken, authState.user, authState.user)
                /\ authState' = [authState EXCEPT !.token = r.newToken]
                /\ last' = Ev("refresh:true", "refreshed", r.field, r.value, NULL, NULL, NULL)
           ELSE /\ RefreshFailed
                /\ last' = Ev("refresh:false",
                              IF r.accepted THEN "savefailed"
                              ELSE IF r.ok THEN "nonewtoken" ELSE "failed",
                              r.field, r.value, NULL, NULL, NULL)
    /\ UNCHANGED <<authCallbacks, inits, main, platform, handlers>>
    /\ UNCHANGED <<routerVars, serviceVars, llm>> /\ RendererHears

\* ------------------------------------------- AuthHandler: URL texts
\* Texts are sequences of characters.  The characters of a `user` or
\* `expires` parameter: a letter, the percent sign, two digits that are
\* also hexadecimal digits, and what the escapes made of them decode to.
DQ == "\""
Chars == {"x", "%", "2", "5"}
HexDigits == {"2", "5"}

\* The character with code 0x<h1><h2>: %22, %25, %52, %55.
Unescaped(h1, h2) ==
  IF h1 = "2" THEN (IF h2 = "2" THEN DQ ELSE "%")
  ELSE (IF h2 = "2" THEN "R" ELSE "U")

\* s starts with an escape sequence %hh.
StartsWithEscape(s) ==
  Len(s) >= 3 /\ s[1] = "%" /\ s[2] \in HexDigits /\ s[3] \in HexDigits

\* The percent-decoding of URLSearchParams: escapes are replaced, and a
\* percent sign that starts no escape stays as it is.
RECURSIVE searchParamsGet(_)
searchParamsGet(s) ==
  IF s = <<>> THEN <<>>
  ELSE IF StartsWithEscape(s)
    THEN <<Unescaped(s[2], s[3])>> \o searchParamsGet(SubSeq(s, 4, Len(s)))
  ELSE <<Head(s)>> \o searchParamsGet(Tail(s))

\* A function result that may be a thrown error instead of a text.
Thrown == [ok |-> FALSE, text |-> <<>>]
Returned(text) == [ok |-> TRUE, text |-> text]

\* decodeURIComponent: a percent sign that starts no escape throws
\* URIError.
RECURSIVE decodeURIComponent(_)
decodeURIComponent(s) ==
  IF s = <<>> THEN Returned(<<>>)
  ELSE IF Head(s) = "%" /\ ~StartsWithEscape(s) THEN Thrown
  ELSE LET n == IF Head(s) = "%" THEN 3 ELSE 1
           c == IF Head(s) = "%" THEN Unescaped(s[2], s[3]) ELSE Head(s)
           rest == decodeURIComponent(SubSeq(s, n + 1, Len(s)))
       IN  IF rest.ok THEN Returned(<<c>> \o rest.text) ELSE Thrown

\* JSON.parse on the texts of this alphabet: a string literal gives its
\* content, digits give a number, anything else throws SyntaxError.
JSONParse(t) ==
  IF Len(t) >= 2 /\ t[1] = DQ /\ t[Len(t)] = DQ
       /\ \A i \in 2..(Len(t) - 1) : t[i] /= DQ
    THEN [ok |-> TRUE, kind |-> "string", value |-> SubSeq(t, 2, Len(t) - 1)]
  ELSE IF t /= <<>> /\ \A i \in 1..Len(t) : t[i] \in {"2", "5"}
    THEN [ok |-> TRUE, kind |-> "number", value |-> t]
  ELSE [ok |-> FALSE, kind |-> "undefined", value |-> <<>>]

\* parseInt on a text of digits and letters: the number its leading
\* digits spell, NaN when it has none.
RECURSIVE LeadingDigits(_)
LeadingDigits(s) ==
  IF s = <<>> \/ Head(s) \notin {"2", "5"} THEN <<>>
  ELSE <<Head(s)>> \o LeadingDigits(Tail(s))

RECURSIVE DecimalValue(_)
DecimalValue(d) ==
  IF d = <<>> THEN 0
  ELSE 10 * DecimalValue(SubSeq(d, 1, Len(d) - 1))
         + (IF d[Len(d)] = "2" THEN 2 ELSE 5)

parseInt(s) ==
  IF LeadingDigits(s) = <<>> THEN [kind |-> "NaN", n |-> 0]
  ELSE [kind |-> "number", n |-> DecimalValue(LeadingDigits(s))]

\* --------------------------------- AuthHandler.handleProtocolUrl (router)
\* `process.env.CUSTOM_PROTOCOL || 'paradigm'`.
CustomProtocol == "paradigm"

\* `userParam ? JSON.parse(decodeURIComponent(userParam)) : undefined`,
\* where userParam is url.searchParams.get('user'), which has already
\* percent-decoded the raw parameter: the user of the AuthData, or a throw.
AuthDataUser(userParam) ==
  LET got == searchParamsGet(userParam.text) IN
  IF ~userParam.present \/ got = <<>> THEN [ok |-> TRUE, user |-> Undefined]
  ELSE LET decoded == decodeURIComponent(got)
           parsed == JSONParse(decoded.text)
       IN  IF decoded.ok /\ parsed.ok
             THEN [ok |-> TRUE, user |-> [kind |-> parsed.kind, value |-> parsed.value]]
             ELSE [ok |-> FALSE, user |-> Undefined]

\* `expiresParam ? parseInt(expiresParam) : undefined`.
AuthDataExpiresAt(expiresParam) ==
  LET got == searchParamsGet(expiresParam.text) IN
  IF ~expiresParam.present \/ got = <<>> THEN UndefinedNumber ELSE parseInt(got)

\* AuthHandler.handleAuthSuccess; a throw of JSON.parse or
\* decodeURIComponent lands in the catch of handleProtocolUrl.
AuthHandler_handleAuthSuccess(u) ==
  IF TokenMissing(u.token) THEN OnError("No authentication token received")
  ELSE LET user == AuthDataUser(u.user) IN
       IF ~user.ok THEN OnError("Invalid callback URL format")
       ELSE OnSuccess(u.token, user.user, AuthDataExpiresAt(u.expires))

\* AuthHandler.handleAuthError.
AuthHandler_handleAuthError(u) == OnError(FullError(u.error, u.description))

\* handleProtocolUrl without the `url.startsWith` check of the scheme.
handleProtocolUrl_AnyScheme(u) ==
  IF u.path = "auth-success" THEN AuthHandler_handleAuthSuccess(u)
  ELSE IF u.path = "auth-error" THEN AuthHandler_handleAuthError(u)
  ELSE Ignored

\* AuthHandler.handleProtocolUrl: a URL of another scheme returns at once,
\* the two known paths are handled, any other path is only logged with
\* console.warn.
handleProtocolUrl(u) ==
  IF u.scheme /= CustomProtocol THEN Ignored
  ELSE IF u.path = "auth-success" THEN AuthHandler_handleAuthSuccess(u)
  ELSE IF u.path = "auth-error" THEN AuthHandler_handleAuthError(u)
  ELSE Ignored

\* ------------------------------------------------------ the URLs routed
\* Texts of at most n characters.
Texts(n) == UNION { [1..k -> Chars] : k \in 0..n }

\* JSON.stringify of a string of these characters.
JSONStringify(v) == <<DQ>> \o v \o <<DQ>>

\* encodeURIComponent, as the login site applies it to the user JSON.
RECURSIVE encodeURIComponent(_)
encodeURIComponent(s) ==
  IF s = <<>> THEN <<>>
  ELSE (IF Head(s) = "%" THEN <<"%", "2", "5">>
        ELSE IF Head(s) = DQ THEN <<"%", "2", "2">>
        ELSE <<Head(s)>>) \o encodeURIComponent(Tail(s))

\* `user` parameters: the percent-encoded JSON of a user value; and texts
\* that are no such encoding: no JSON, a percent sign that starts no
\* escape, a string literal that is not closed.
UserValues == Texts(MaxUserLen)
WellFormedUsers == { Param(encodeURIComponent(JSONStringify(v))) : v \in UserValues }
MalformedUsers == { Param(<<"x">>), Param(<<"%">>), Param(<<"%", "2", "2", "x">>) }

\* `expires` parameters: absent, an integer, an integer followed by a
\* letter, no integer.
ExpiresParams == { NoParam, Param(<<"2", "5">>), Param(<<"2", "x">>), Param(<<"x">>) }

\* Paths that are neither auth-success nor auth-error.
UnknownPaths == {"auth-success/", "login"}

CallbackUrls ==
  { Url(CustomProtocol, "auth-success", t, u, e, NULL, NULL) :
      t \in TokenParams, u \in {NoParam} \cup WellFormedUsers \cup MalformedUsers,
      e \in ExpiresParams }
  \cup { Url(CustomProtocol, "auth-error", NULL, NoParam, NoParam, e, d) :
      e \in ErrorParams, d \in DescriptionParams }
  \cup { Url(CustomProtocol, p, t, NoParam, NoParam, NULL, NULL) :
      p \in UnknownPaths, t \in TokenParams }
  \cup { Url("https", p, t, NoParam, NoParam, NULL, NULL) :
      p \in {"auth-success", "auth-error"}, t \in TokenParams }

\* The router on its own: an AuthHandler with its callbacks set is handed
\* one URL.
RouteInit ==
  /\ authState = Unauthenticated
  /\ authFile = NoFile
  /\ inflight = EmptyBag
  /\ authCallbacks = TRUE
  /\ inits = 1
  /\ last = NoEv
  /\ main = LoadedMain(TRUE)
  /\ platform \in Platforms
  /\ handlers = 1
  /\ url \in CallbackUrls
  /\ authEvent = Pending
  /\ disk = NoDisk
  /\ call = NoCall
  /\ saved = NoSave
  /\ renderer = NoRenderer
  /\ llm = NoLlm

\* handleProtocolUrl(url) runs.
HandleProtocolUrl ==
  /\ authEvent = Pending
  /\ url /= NoUrl
  /\ authEvent' = handleProtocolUrl(url)
  /\ UNCHANGED url
  /\ UNCHANGED sessionVars
  /\ UNCHANGED <<serviceVars, appVars>>

RouteSpec == RouteInit /\ [][HandleProtocolUrl]_vars

\* ------------------------------------------------ services on their own
\* Sessions a service call can find in memory: none, or a signed-in one.
ServiceSessions ==
  {Unauthenticated, [isAuthenticated |-> TRUE, user |-> "uA", token |-> "tA"]}

ServiceInit ==
  /\ authState \in ServiceSessions
  /\ authFile = NoFile
  /\ inflight = EmptyBag
  /\ authCallbacks = TRUE
  /\ inits = 1
  /\ last = NoEv
  /\ main = LoadedMain(TRUE)
  /\ platform = "darwin"
  /\ handlers = 1
  /\ url = NoUrl
  /\ authEvent = Pending
  /\ disk \in StartDisks
  /\ call = NoCall
  /\ saved = NoSave
  /\ renderer = NoRenderer
  /\ llm = NoLlm

\* The record saveAuthState(c) writes, in the form it writes it.
NewRecord(c, encryptionAvailable) ==
  Disk(SavedFile(c.token, StoredUser(c.user, authState.user)),
       WrittenForm(encryptionAvailable))

\* saveAuthState(c): the record is written in the form the availability
\* of encryption gives, or a step of the try block throws, which the catch
\* re-throws, and nothing is written.
SaveAuthState ==
  /\ \E c \in Credentials, encryptionAvailable \in BOOLEAN, throws \in BOOLEAN :
       IF throws
         THEN /\ call' = [op |-> "save", threw |-> TRUE, before |-> disk,
                          encryptionAvailable |-> encryptionAvailable,
                          form |-> "none", returned |-> "none"]
              /\ UNCHANGED <<disk, saved>>
         ELSE /\ disk' = NewRecord(c, encryptionAvailable)
              /\ call' = [op |-> "save", threw |-> FALSE, before |-> disk,
                          encryptionAvailable |-> encryptionAvailable,
                          form |-> WrittenForm(encryptionAvailable),
                          returned |-> SaveReturns(encryptionAvailable)]
              /\ saved' = [written |-> TRUE, token |-> c.token, user |-> c.user,
                           memUser |-> authState.user]
  /\ UNCHANGED <<sessionVars, routerVars, appVars>>

\* A file cut off in the middle: its bytes are neither JSON nor
\* ciphertext that decrypts.
PartialFile ==
  Disk([exists |-> TRUE, json |-> FALSE,
        token |-> NULL, user |-> NULL, old |-> FALSE], "plain")

\* What `fs.writeFileSync(authFilePath, dataToWrite)` can leave when the
\* process ends while it runs: it opens the credential file itself with
\* truncation and writes into it, so the file is as before (not yet
\* opened), cut off, or complete.
InterruptedWrites(c, encryptionAvailable) ==
  {disk, PartialFile, NewRecord(c, encryptionAvailable)}

\* The process is killed (or the machine stops) during the writeFileSync
\* of saveAuthState(c); the call never returns.
SaveInterrupted ==
  /\ \E c \in Credentials, encryptionAvailable \in BOOLEAN :
       /\ disk' \in InterruptedWrites(c, encryptionAvailable)
       /\ call' = [op |-> "interrupted", before |-> disk, c |-> c,
                   encryptionAvailable |-> encryptionAvailable]
  /\ saved' = NoSave
  /\ UNCHANGED <<sessionVars, routerVars, appVars>>

\* loadStoredAuth(): the bytes are read in the way the availability of
\* encryption gives; the catch around it makes it return null instead of
\* throwing.
LoadStoredAuth ==
  /\ \E encryptionAvailable \in BOOLEAN :
     \E decryptOk \in (IF encryptionAvailable /\ disk.form = "cipher"
                         THEN BOOLEAN ELSE {FALSE}) :
       LET stored == loadStoredAuth(disk.file,
                       ReadsBack(disk.form, encryptionAvailable, decryptOk))
       IN /\ disk' = IF stored.file.exists THEN Disk(stored.file, disk.form)
                                           ELSE NoDisk
          /\ call' = [op |-> "load", threw |-> FALSE, before |-> disk,
                      encryptionAvailable |-> encryptionAvailable,
                      decryptFailed |->
                        DecryptFails(disk.form, encryptionAvailable, decryptOk),
                      present |-> stored.present,
                      token |-> stored.token, user |-> stored.user]
  /\ UNCHANGED saved
  /\ UNCHANGED <<sessionVars, routerVars, appVars>>

\* The clock passes 30 days after the timestamp in the file.
TimePasses ==
  /\ disk.file.exists /\ disk.file.json /\ ~disk.file.old
  /\ disk' = [disk EXCEPT !.file.old = TRUE]
  /\ call' = [op |-> "wait"]
  /\ UNCHANGED saved
  /\ UNCHANGED <<sessionVars, routerVars, appVars>>

\* validateTokenWithBackend(token) on one outcome of its axios call.
ValidateTokenWithBackend ==
  /\ \E r \in HttpOutcomes :
       call' = [op |-> "validate", threw |-> FALSE, outcome |-> r,
                returned |-> validateTokenWithBackend(r)]
  /\ UNCHANGED <<disk, saved>>
  /\ UNCHANGED <<sessionVars, routerVars, appVars>>

ServiceNext ==
  \/ SaveAuthState
  \/ SaveInterrupted
  \/ LoadStoredAuth
  \/ TimePasses
  \/ ValidateTokenWithBackend

ServiceSpec == ServiceInit /\ [][ServiceNext]_vars

\* ------------------------------------------------- auth-state-changed
\* The segments at whose end AppState calls notifyAuthStateChanged: the
\* end of initializeAuth, a login that succeeded, logout, and a refresh
\* that returned true.  handleAuthError sends "auth-error" only.
Notifies(l) ==
  \/ l.ev = "init:done" /\ l.why /= "nowindow"
  \/ l.ev \in {"login:success", "logout", "refresh:true"}

\* AppState.notifyAuthStateChanged: the payload sent to the window.
notifyAuthStateChanged == [isAuthenticated |-> authState.isAuthenticated]

\* The last segment delivered a callback URL of the operating system.
Delivered(l) == l.path /= "none"

\* Login and refresh operations waiting for the network.
TransitionsWaiting ==
  BagCardinality([op \in {o \in Waiting : o.kind /= "init"} |-> inflight[op]])

\* ------------------------------------------------------------------ Next
Next ==
  \/ LoadMain
  \/ InitializeAuth
  \/ InitValidateOutcome
  \/ InitProfileOutcome
  \/ AuthSuccessCallback
  \/ LoginValidateOutcome
  \/ LoginProfileOutcome
  \/ AuthErrorCallback
  \/ Logout
  \/ RefreshStart
  \/ RefreshOutcome

Spec == Init /\ [][Next]_vars

\* ------------------------------------------- the app around the session
\* The session machine with the window's App mounted and the processing
\* helper at work.
AppInit ==
  /\ authState = Unauthenticated
  /\ authFile \in StartFiles
  /\ inflight = EmptyBag
  /\ authCallbacks = FALSE
  /\ inits = 0
  /\ last = NoEv
  /\ main = NotLoaded
  /\ platform \in Platforms
  /\ handlers = 0
  /\ url = NoUrl
  /\ authEvent = Pending
  /\ disk = NoDisk
  /\ call = NoCall
  /\ saved = NoSave
  /\ renderer = Mounted
  /\ llm = NoLlm

\* checkAuthState of App: the answer of "get-auth-state" arrives and sets
\* the view, "authenticated" for `isAuthenticated && user`.
CheckAuthState ==
  /\ Running
  /\ renderer.view /= "none" /\ ~renderer.checked
  /\ renderer' =
       [view |-> IF GetAuthState.isAuthenticated /\ Truthy(GetAuthState.user)
                   THEN "authenticated" ELSE "unauthenticated",
        checked |-> TRUE]
  /\ UNCHANGED <<sessionVars, routerVars, serviceVars, llm>>

\* ProcessingHelper.updateAuthToken: the token goes to LLMHelper only
\* when the session has one.
updateAuthToken(held, sessionToken) ==
  IF Truthy(sessionToken) THEN sessionToken ELSE held

\* A processing call (processScreenshots, processAudioBase64,
\* processAudioFile, refreshContext followed by a chat): updateAuthToken
\* runs, then LLMHelper asks the backend (fetchActiveContext,
\* createActivity) with `Bearer ${this.authToken}` when it holds a token,
\* and makes no request when it holds none.
ProcessingRequest ==
  /\ Running
  /\ LET held == updateAuthToken(llm.authToken, authState.token) IN
       llm' = [authToken |-> held, bearer |-> held]
  /\ last' = Step("processing:request")
  /\ UNCHANGED <<authState, authFile, inflight, authCallbacks, inits,
                 main, platform, handlers>>
  /\ UNCHANGED <<routerVars, serviceVars, renderer>>

AppNext ==
  \/ Next
  \/ CheckAuthState
  \/ ProcessingRequest

AppSpec == AppInit /\ [][AppNext]_vars

\* ================================================================ claims
\* The session is Authenticated.
Authenticated == authState.isAuthenticated

\* C1: in every reachable state, after any interleaving of Init, success
\* and error callbacks, logout and refresh, an Authenticated session holds
\* a token that is a non-empty string.
C1_AuthenticatedHasToken ==
  Authenticated => (authState.token /= NULL /\ authState.token /= EMPTY)

\* C1 witness: an Authenticated session whose token a refresh has just
\* replaced.
C1_Witness ==
  Authenticated /\ last.ev = "refresh:true" /\ authState.token = last.token

C3_SessionUserIsCallbackUser ==
  (last.ev = "login:success" /\ last.user /= NULL)
    => (Authenticated /\ authState.token = last.token
        /\ authState.user = last.user)

\* C3 amended: after a success callback with token T and user U has been
\* handled with a valid token, a fetched profile P and a save that worked,
\* the session is Authenticated with token T and user P, the profile the
\* backend returned; U goes to the credential file only (P when the
\* callback carried no user).
C3_SessionUserIsProfile ==
  last.ev = "login:success"
    => (/\ authState = [isAuthenticated |-> TRUE, user |-> last.profile,
                        token |-> last.token]
        /\ authFile.exists
        /\ authFile.token = last.token
        /\ authFile.user = (IF last.user /= NULL THEN last.user ELSE last.profile))

\* C3 witness: a login succeeded whose callback user differs from the
\* profile the backend returned.
C3_Witness ==
  last.ev = "login:success" /\ last.user /= NULL /\ last.user /= last.profile

\* C4 as stated: once an auth-error callback has been handled the session
\* is Unauthenticated, and the error message has been published.
C4_ErrorUnauthenticates ==
  (last.ev = "authError" /\ last.why = "callback")
    => (~Authenticated /\ last.error /= NULL)

\* Init ended because the verify-token call failed.
InitValidationFailed ==
  last.ev = "init:done" /\ last.why \in {"rejected", "neterr", "timeout"}

InitWaiting == \E op \in Waiting : op.kind = "init"

\* Every axios call of initialize carries `timeout: 10000`, so it settles:
\* with a response, a transport error or the timeout.
LiveSpec ==
  Spec /\ WF_vars(InitValidateOutcome) /\ WF_vars(InitProfileOutcome)

\* C7: Init always terminates: an initialize call waiting for the backend
\* eventually waits no more, and one whose verify-token call timed out has
\* left the session Unauthenticated.
C7_InitTerminates ==
  /\ InitWaiting ~> ~InitWaiting
  /\ []((last.ev = "init:done" /\ last.why = "timeout") => ~Authenticated)

\* C7 witness: a verify-token call of Init timed out and no initialize
\* call is waiting any more.
C7_Witness ==
  last.ev = "init:done" /\ last.why = "timeout" /\ ~InitWaiting /\ ~Authenticated

\* C8 as stated: a success callback whose handling failed at validate,
\* fetchProfile or save leaves the session Unauthenticated, with an error
\* published.
C8_FailedLoginUnauthenticated ==
  last.ev = "login:failed" => (~Authenticated /\ last.error /= NULL)

\* Some refresh-token call has just ended in refreshToken returning false.
RefreshCallFailed(l) == l.ev = "refresh:false" /\ l.why /= "notoken"

\* C9: a refresh whose call failed resolves false and changes nothing: the
\* session (isAuthenticated, token, user) and the credential file are what
\* they were, so an Authenticated session stays Authenticated with the old
\* token.
C9_FailedRefreshChangesNothing ==
  [][RefreshCallFailed(last') => (authState' = authState /\ authFile' = authFile)]_vars

\* C9 witness: a refresh call has failed on an Authenticated session with
\* its credential on disk.
C9_Witness ==
  /\ RefreshCallFailed(last) /\ last.why = "failed"
  /\ Authenticated /\ authFile.exists /\ authFile.token = authState.token

\* C10 as stated: a 200/success refresh response carrying data.newToken = N
\* resolves true with N as the session's and the file's token, the session
\* Authenticated.
C10_NewTokenFieldRefreshes ==
  (last.ev \in {"refresh:true", "refresh:false"} /\ last.field = "newToken"
     /\ last.token \in Tokens)
    => (/\ last.ev = "refresh:true"
        /\ authState.token = last.token /\ authFile.token = last.token)

\* C10 amended: a 200/success refresh response carrying a non-empty
\* data.customToken = N, with a save that does not throw, resolves true,
\* and then N is the session's token and the token of the credential file,
\* and the refresh leaves isAuthenticated as it was; no other response
\* resolves true.
C10_CustomTokenFieldRefreshes ==
  [][/\ last'.ev = "refresh:true"
          => (/\ last'.field = "customToken" /\ last'.token \in Tokens
              /\ authState'.token = last'.token
              /\ authFile'.exists /\ authFile'.token = last'.token
              /\ authState'.isAuthenticated = authState.isAuthenticated
              /\ authState'.user = authState.user)
     /\ (last'.ev = "refresh:false" /\ last'.field = "customToken"
           /\ last'.token \in Tokens)
          => last'.why = "savefailed"]_vars

\* C10 witness: a refresh answered with data.customToken has installed that
\* token in an Authenticated session, in memory and on disk.
C10_Witness ==
  /\ last.ev = "refresh:true" /\ last.field = "customToken"
  /\ Authenticated /\ authState.token = last.token
  /\ authFile.exists /\ authFile.token = last.token

\* C11 as stated: every step that changes the session state ends with an
\* auth-state-changed notification carrying the isAuthenticated value of
\* the new state.
C11_EveryChangeNotified ==
  [][authState' /= authState
       => (Notifies(last')
           /\ notifyAuthStateChanged'.isAuthenticated = authState'.isAuthenticated)]_vars

\* C12 as stated: login, logout and refresh transitions are serialized: at
\* most one of them is waiting for the network, and logout does not run
\* while one is.
C12_TransitionsSerialized ==
  /\ TransitionsWaiting <= 1
  /\ last.ev = "logout" => TransitionsWaiting = 0

\* C13 as stated: no callback URL delivered to the running primary
\* instance is dropped: every delivery starts its handling.
C13_NoCallbackDropped ==
  Delivered(last) => last.runs >= 1

\* C14 as stated: once auth is initialized, one delivery of a callback URL
\* causes exactly one run of success or error handling.
C14_HandledExactlyOnce ==
  (Delivered(last) /\ authCallbacks) => last.runs = 1

\* C15 as stated: a callback URL that arrives as the argument of a second
\* launch is handled as the same URL arriving as an in-process event would
\* be in the same state: by the same runs of the session machine.
C15_SecondInstanceAsInProcess ==
  (Delivered(last) /\ last.path = "second-instance")
    => last.runs = ListenerRuns("open-url", platform, handlers, authCallbacks)

\* C16 as stated: a process that did not get the single-instance lock
\* creates no AppState and registers no IPC handler.
C16_SecondaryCreatesNothing ==
  (main.loaded /\ ~main.gotTheLock) => (~main.appState /\ ~main.ipcHandlers)

\* handleProtocolUrl has run on the URL.
Routed == authEvent /= Pending

\* An auth-success URL of the registered scheme.
SuccessUrl(u) == u.scheme = CustomProtocol /\ u.path = "auth-success"

\* C17: routing an auth-success URL whose token parameter is absent or
\* empty ends in onError("No authentication token received"), whatever its
\* other parameters, and never in onSuccess.
C17_NoTokenIsError ==
  (Routed /\ SuccessUrl(url) /\ url.token \in {NULL, EMPTY})
    => authEvent = OnError("No authentication token received")

\* C17 witness: a success URL with an empty token, and a user that could
\* not be parsed either, has been routed to the missing-token error.
C17_Witness ==
  /\ Routed /\ SuccessUrl(url) /\ url.token = EMPTY /\ url.user \in MalformedUsers
  /\ authEvent.type = "Error"

\* C18 as stated: routing a well-formed success URL with token T and
\* percent-encoded user U ends in onSuccess with token T and the user that
\* decoding U once and parsing the result gives.
C18_SuccessCarriesDecodedUser ==
  (Routed /\ SuccessUrl(url) /\ url.token \in CallbackTokens
     /\ url.user \in WellFormedUsers)
    => LET parsed == JSONParse(decodeURIComponent(url.user.text).text) IN
       /\ authEvent.type = "Success"
       /\ authEvent.token = url.token
       /\ authEvent.user = [kind |-> parsed.kind, value |-> parsed.value]

\* C19 as stated: routing a URL of the registered scheme with an unknown
\* path ends in onError("Unknown auth callback path: <path>").
C19_UnknownPathIsError ==
  (Routed /\ url.scheme = CustomProtocol /\ url.path \in UnknownPaths)
    => authEvent = OnError("Unknown auth callback path: " \o url.path)

\* A user parameter that cannot be percent-decoded or JSON-parsed.
UserUnreadable(p) ==
  /\ p.present
  /\ ~(decodeURIComponent(p.text).ok /\ JSONParse(decodeURIComponent(p.text).text).ok)

\* An expires parameter that is not an integer.
ExpiresNoInteger(p) ==
  p.present /\ (p.text = <<>> \/ LeadingDigits(p.text) /= p.text)

\* C20 as stated: in a success URL with a token, a user that cannot be
\* decoded or parsed, or an expires that is no integer, counts as absent:
\* the router still ends in onSuccess with the token, the user undefined
\* and expiresAt no number.
C20_BadOptionalFieldIsAbsent ==
  (Routed /\ SuccessUrl(url) /\ url.token \in CallbackTokens
     /\ (UserUnreadable(url.user) \/ ExpiresNoInteger(url.expires)))
    => (/\ authEvent.type = "Success"
        /\ authEvent.token = url.token
        /\ UserUnreadable(url.user) => authEvent.user = Undefined
        /\ ExpiresNoInteger(url.expires) => authEvent.expiresAt.kind /= "number")

PlainCredential(d) ==
  d.form = "plain" /\ d.file.exists /\ d.file.json /\ ~d.file.old

RoundTrip ==
  /\ call.op = "load" /\ saved.written
  /\ call.before.file.exists /\ call.before.form = "cipher"
  /\ ~call.before.file.old
  /\ call.encryptionAvailable /\ ~call.decryptFailed

\* C23 as claimed: save(c) followed by load(), both with encryption
\* available, returns a credential with the token and the user of c.
C23_RoundTripReturnsGivenUser ==
  RoundTrip => (call.present /\ call.token = saved.token /\ call.user = saved.user)

\* C23 amended: the round trip returns the token of c, and the user of c
\* when c has one, otherwise the user the session held when c was saved.
C23_RoundTripReturnsStoredUser ==
  RoundTrip =>
    /\ call.present
    /\ call.token = saved.token
    /\ call.user = (IF Truthy(saved.user) THEN saved.user ELSE saved.memUser)

\* A round trip of a credential without a user, saved while the session
\* held one.
C23_Witness ==
  RoundTrip /\ ~Truthy(saved.user) /\ Truthy(saved.memUser) /\ call.present

\* C24: the credential is never written in plain text without the caller
\* of save being told that encryption was unavailable: what a save that
\* wrote plain bytes returns differs from undefined, the return of a save
\* that encrypted.
C24_PlainWriteReported ==
  (call.op = "save" /\ ~call.threw /\ call.form = "plain")
    => call.returned /= "undefined"

\* C25: validate returns true only for a response with status 200 whose
\* body has success true; for every other outcome (other status, other
\* body, transport error, timeout) it returns false, and it never throws.
C25_ValidOnlyOn200Success ==
  call.op = "validate"
    => /\ ~call.threw
       /\ call.returned <=>
            (/\ call.outcome.kind = "response"
             /\ call.outcome.status = 200
             /\ call.outcome.success = "true")

\* A response with a status other than 200 and success true was judged.
C25_Witness ==
  /\ call.op = "validate"
  /\ call.outcome.kind = "response" /\ call.outcome.status /= 200
  /\ call.outcome.success = "true"
  /\ ~call.returned

\* ------------------------------------------ claims on the session, again
\* The network call of a refresh has ended (its segment ran last).
RefreshCompleted(l) ==
  l.ev \in {"refresh:true", "refresh:false"} /\ l.why /= "notoken"

\* C27: a refresh whose network call completes after a logout does not
\* undo the logout: when the call ends right after the logout with nothing
\* else in flight, the credential file is absent, the token in memory is
\* null and the session is unauthenticated.
C27_RefreshDoesNotUndoLogout ==
  [][(last.ev = "logout" /\ RefreshCompleted(last'))
       => (~authFile'.exists /\ authState' = Unauthenticated)]_vars

\* C28: in every state, isAuthenticated = false implies token = null and
\* user = null.
C28_UnauthenticatedHoldsNothing ==
  ~authState.isAuthenticated => (authState.token = NULL /\ authState.user = NULL)

\* The credential file holds token t.
FileHolds(t) == authFile.exists /\ authFile.json /\ authFile.token = t

\* C29: whenever no operation is in flight (and AuthManager.initialize
\* has run to its end), the session is authenticated with token T if and
\* only if the credential file exists and holds T.
C29_SessionAndFileAgree ==
  (Running /\ authCallbacks /\ inflight = EmptyBag)
    => /\ Authenticated => FileHolds(authState.token)
       /\ authFile.exists => (Authenticated /\ FileHolds(authState.token))

\* The validation or the profile fetch of a success callback has failed
\* (its segment ran last).
LoginRejected(l) ==
  l.ev = "login:failed" /\ l.why \in {"invalid", "noprofile"}

\* C30: a success callback handled while the session is authenticated
\* whose token fails validation or whose profile fetch fails leaves the
\* session (token, user, isAuthenticated) and the credential file as
\* they were.
C30_RejectedLoginLeavesSession ==
  [][(Authenticated /\ LoginRejected(last'))
       => (authState' = authState /\ authFile' = authFile)]_vars

\* A callback was rejected while a session with its file was in place.
C30_Witness ==
  /\ LoginRejected(last)
  /\ Authenticated /\ FileHolds(authState.token)

\* With the AuthHandler installed, the operating system can deliver a
\* callback URL whose handling fits next to what is in flight.
CallbackFits ==
  /\ authCallbacks
  /\ \E path \in DeliveryPaths(platform) :
       BagCardinality(inflight)
         + ListenerRuns(path, platform, handlers, authCallbacks) <= MaxInFlight

\* A success callback waiting for the call named pc.
LoginAt(op, pc) == op.kind = "login" /\ op.pc = pc

\* C26: no session state is terminal.  In every state of the running
\* instance a logout can run and leaves the session unauthenticated; every
\* operation in flight can end; once the AuthHandler is installed a
\* success callback can start a login; and a login in flight can, with a
\* valid token and a profile from the backend, go on to the profile call
\* and from there make the session authenticated with its token.
C26_NoTerminalState ==
  Running =>
    /\ ENABLED (Logout /\ authState' = Unauthenticated)
    /\ \A op \in Waiting : ENABLED (Next /\ inflight' = Remove(inflight, op))
    /\ CallbackFits => ENABLED (AuthSuccessCallback /\ last'.ev = "login:validate")
    /\ \A op \in Waiting :
         /\ LoginAt(op, "validate") =>
              ENABLED (/\ LoginValidateOutcome
                       /\ inflight' = Add(Remove(inflight, op),
                                          Op("login", "profile", op.token, op.user)))
         /\ LoginAt(op, "profile") =>
              ENABLED (/\ LoginProfileOutcome
                       /\ inflight' = Remove(inflight, op)
                       /\ authState'.isAuthenticated
                       /\ authState'.token = op.token)

\* A login is on its way back to Authenticated from a session that a
\* logout has cleared.
C26_Witness ==
  /\ authState = Unauthenticated /\ ~authFile.exists /\ authCallbacks
  /\ \E op \in Waiting : LoginAt(op, "profile")

\* ------------------------------------------- claims on the router, again
\* C35: routing a URL whose scheme is not the registered custom scheme
\* makes no callback at all, neither onSuccess nor onError, and the
\* session is as it was.
C35_OtherSchemeIgnored ==
  (Routed /\ url.scheme /= CustomProtocol)
    => (authEvent = Ignored /\ authState = Unauthenticated /\ authFile = NoFile)

\* An https URL that looks like a success callback with a token was
\* routed.
C35_Witness ==
  /\ Routed /\ url.scheme = "https"
  /\ url.path = "auth-success" /\ url.token \in CallbackTokens
  /\ authEvent = Ignored

\* An auth-error URL of the registered scheme.
ErrorUrl(u) == u.scheme = CustomProtocol /\ u.path = "auth-error"

\* C36: for an auth-error URL the message is "<error>: <description>"
\* when both parameters are there, <error> alone without a description,
\* with "Authentication failed" in place of <error> when the error
\* parameter is absent or empty.  (An empty description counts as none.)
C36_ErrorMessageFormat ==
  (Routed /\ ErrorUrl(url)) =>
    /\ authEvent.type = "Error"
    /\ authEvent.error =
         IF url.error \in {NULL, EMPTY}
           THEN (IF url.description \in {NULL, EMPTY}
                   THEN "Authentication failed"
                   ELSE "Authentication failed: " \o url.description)
           ELSE (IF url.description \in {NULL, EMPTY}
                   THEN url.error
                   ELSE url.error \o ": " \o url.description)

\* An auth-error URL with both parameters was routed.
C36_Witness ==
  /\ Routed /\ ErrorUrl(url)
  /\ url.error = "access_denied" /\ url.description = "User cancelled"
  /\ authEvent = OnError("access_denied: User cancelled")

\* ------------------------------------------ claims on the services, again
\* C37: a save never leaves a partially written credential file: when
\* the process ends in the middle of a save, the file is absent, the
\* complete record it held before, or the complete new record.
C37_NoPartialFile ==
  call.op = "interrupted"
    => \/ disk = NoDisk
       \/ disk = call.before
       \/ disk = NewRecord(call.c, call.encryptionAvailable)

\* ------------------------------------------ claims on the session, third
\* C34: a successful refresh changes only the token (and the timestamp)
\* of the persisted credential: the user in the file (and with it
\* expiresAt) is the same after the refresh as before it.
C34_RefreshKeepsPersistedUser ==
  [][(last'.ev = "refresh:true" /\ authFile.exists /\ authFile.json)
       => (authFile'.exists /\ authFile'.user = authFile.user)]_vars

\* The values a message or an IPC answer holds in its fields.
Carried(m) == { m[f] : f \in DOMAIN m }

\* C32: the bearer token never reaches the renderer: no message sent to
\* the window and no answer of an auth IPC handler holds a token value in
\* any field, whatever the session and the tokens seen so far.
C32_TokenStaysInMain ==
  /\ \A i \in DOMAIN SentBy(last, authState) :
       Carried(SentBy(last, authState)[i]) \cap Tokens = {}
  /\ \A m \in IpcResponses : Carried(m) \cap Tokens = {}

\* An auth-success message was sent for a session that holds a token.
C32_Witness ==
  /\ last.ev = "login:success" /\ authState.token \in Tokens
  /\ SentBy(last, authState)[2] = AuthSuccessMessage(authState)

\* ------------------------------------------------- claims on the app
\* C31: once the renderer has processed every auth notification sent to
\* it (and has had the answer of its first get-auth-state), its view is
\* "authenticated" if and only if the main-process session reports
\* isAuthenticated = true.
C31_RendererAgreesWithMain ==
  renderer.checked
    => (renderer.view = "authenticated" <=> isAuthenticated(authState))

\* C33: after a logout no backend request of the processing components
\* carries the token of the session that was logged out: a request made
\* while the session holds no token carries no bearer, and one made while
\* it holds a token carries that token.
C33_RequestsCarrySessionToken ==
  last.ev = "processing:request"
    => llm.bearer = (IF Truthy(authState.token) THEN authState.token ELSE NULL)
====
